---- MODULE Spec2Model ----
(***************************************************************************)
(* Model of the floor-plan extractor app/services/pdf_extractor.py.        *)
(*                                                                         *)
(* Numbers.  Every real of the program (coordinates, lengths, stroke       *)
(* widths, thicknesses) is a fixed-point integer counting 1/Q of a page    *)
(* unit, so 0.3 is 6 and 15.0 is 300.  Sums, differences, halves and the   *)
(* comparisons of the code are exact in this representation; math.sqrt is  *)
(* the integer square root, which is exact on the axis-parallel and        *)
(* 3-4-5 segments the bounded inputs are made of.                          *)
(***************************************************************************)
EXTENDS Integers, Sequences, FiniteSets, TLC

VARIABLES
    drawings,    \* page.get_drawings(): the page's primitives, in order
    phase,       \* geometry: "build", or the extractor that has run
    candidates,  \* extract_walls_enhanced: the local `walls` before line 395
    out,         \* the list the extractor returned
    span_text,   \* dimension scan: span["text"] of the one span of the page
    scanned,     \* dimension scan: extract_dimensions has run
    dims,        \* dimension scan: the list extract_dimensions returned
    counts,      \* scoring: how many elements of each kind were extracted
    confidence,  \* scoring: what each scoring profile returned for counts
    doc,         \* orchestrator: the pages of the opened document
    entry,       \* orchestrator: the entry point that was called
    pc,          \* orchestrator: the statement the call is at
    handle,      \* orchestrator: "none", "open" or "closed" (fitz.open / doc.close)
    page_num,    \* orchestrator: extract_all_pages' loop variable
    results,     \* orchestrator: extract_all_pages' list `results`
    retval       \* orchestrator: what the call returned

geomVars == <<drawings, phase, candidates, out>>

dimVars == <<span_text, scanned, dims>>

confVars == <<counts, confidence>>

docVars == <<doc, entry, pc, handle, page_num, results, retval>>

vars == <<drawings, phase, candidates, out, span_text, scanned, dims,
          counts, confidence, doc, entry, pc, handle, page_num, results, retval>>

----------------------------------------------------------------------------
(* Fixed point *)

Q == 4 * 5

U(n) == n * Q                       \* n page units
Tenths(n) == n * (Q \div 10)        \* n/10 page units: 0.3 is Tenths(3)

Abs(n) == IF n < 0 THEN -n ELSE n

Max2(a, b) == IF a >= b THEN a ELSE b

Min2(a, b) == IF a <= b THEN a ELSE b

SetMin(S) == CHOOSE m \in S : \A k \in S : m <= k

RECURSIVE SqrtSearch(_, _, _)
SqrtSearch(n, lo, hi) ==
    IF lo >= hi THEN lo
    ELSE LET mid == (lo + hi + 1) \div 2
         IN  IF mid * mid <= n THEN SqrtSearch(n, mid, hi)
             ELSE SqrtSearch(n, lo, mid - 1)

\* math.sqrt on fixed-point squares: the largest r with r*r <= n
Sqrt(n) == SqrtSearch(n, 0, Min2(n, 46340))

Pt(px, py) == [x |-> U(px), y |-> U(py)]

None == <<>>

Some(v) == <<v>>

----------------------------------------------------------------------------
(* Primitives: one item of one drawing path, with the path's stroke width. *)
(*   "l"  pts = <<start, end>>                                             *)
(*   "re" pts = <<(x0, y0), (x1, y1)>>, x0 <= x1, y0 <= y1                 *)
(*   "c"  pts = the four control points of the Bezier curve                *)

Line(s, e, w) == [kind |-> "l", pts |-> <<s, e>>, width |-> w]

Rect(p0, p1, w) == [kind |-> "re", pts |-> <<p0, p1>>, width |-> w]

Curve(ps, w) == [kind |-> "c", pts |-> ps, width |-> w]

RectWidth(r) == r.pts[2].x - r.pts[1].x

RectHeight(r) == r.pts[2].y - r.pts[1].y

\* math.sqrt((end.x - start.x) ** 2 + (end.y - start.y) ** 2)
SegLength(s, e) == Sqrt((e.x - s.x) * (e.x - s.x) + (e.y - s.y) * (e.y - s.y))

----------------------------------------------------------------------------
(* extract_walls: the lightweight wall extractor *)

RectEdgesSwapped(r) ==
    LET x0 == r.pts[1].x  y0 == r.pts[1].y
        x1 == r.pts[2].x  y1 == r.pts[2].y
        w == RectWidth(r)
        h == RectHeight(r)
    IN  << [start |-> [x |-> x0, y |-> y0], end |-> [x |-> x1, y |-> y0], length |-> h],
           [start |-> [x |-> x1, y |-> y0], end |-> [x |-> x1, y |-> y1], length |-> w],
           [start |-> [x |-> x1, y |-> y1], end |-> [x |-> x0, y |-> y1], length |-> h],
           [start |-> [x |-> x0, y |-> y1], end |-> [x |-> x0, y |-> y0], length |-> w] >>

RectEdges(r) ==
    LET x0 == r.pts[1].x  y0 == r.pts[1].y
        x1 == r.pts[2].x  y1 == r.pts[2].y
        w == RectWidth(r)
        h == RectHeight(r)
    IN  << [start |-> [x |-> x0, y |-> y0], end |-> [x |-> x1, y |-> y0], length |-> w],
           [start |-> [x |-> x1, y |-> y0], end |-> [x |-> x1, y |-> y1], length |-> h],
           [start |-> [x |-> x1, y |-> y1], end |-> [x |-> x0, y |-> y1], length |-> w],
           [start |-> [x |-> x0, y |-> y1], end |-> [x |-> x0, y |-> y0], length |-> h] >>

LightWallsOf(p) ==
    IF p.kind = "l" THEN
        LET length == SegLength(p.pts[1], p.pts[2])
        IN  IF length > U(10) /\ p.width >= Tenths(3)
            THEN << [start |-> p.pts[1], end |-> p.pts[2], length |-> length] >>
            ELSE <<>>
    ELSE IF p.kind = "re" THEN
        IF RectWidth(p) > U(10) \/ RectHeight(p) > U(10)
        THEN RectEdges(p)
        ELSE <<>>
    ELSE <<>>

RECURSIVE extract_walls(_)
extract_walls(page_drawings) ==
    IF page_drawings = <<>> THEN <<>>
    ELSE LightWallsOf(Head(page_drawings)) \o extract_walls(Tail(page_drawings))

----------------------------------------------------------------------------
(* extract_walls_enhanced and the wall merger *)

TanFiveNum == 87489

TanFiveDen == 1000000

\* abs(math.degrees(angle)) % 180 lies within 5 degrees of 0, 90 or 180, with
\* angle = atan2(dy, dx): |dy| < tan(5 deg) |dx|, or |dx| < tan(5 deg) |dy|,
\* or the degenerate segment, whose atan2(0, 0) is 0.
IsOrthogonal(s, e) ==
    LET dx == Abs(e.x - s.x)
        dy == Abs(e.y - s.y)
    IN  \/ dx = 0 /\ dy = 0
        \/ dy * TanFiveDen < TanFiveNum * dx
        \/ dx * TanFiveDen < TanFiveNum * dy

\* first pass (lines 340-364) and second pass (lines 372-392) for one item
CandidatesOf(p) ==
    IF p.kind = "l" THEN
        LET length == SegLength(p.pts[1], p.pts[2])
            is_orthogonal == IsOrthogonal(p.pts[1], p.pts[2])
        IN  IF length > U(20) /\ (p.width >= Tenths(3) \/ is_orthogonal)
            THEN << [start |-> p.pts[1], end |-> p.pts[2], length |-> length,
                     thickness |-> p.width, is_orthogonal |-> is_orthogonal] >>
            ELSE <<>>
    ELSE <<>>

RECURSIVE WallCandidates(_)
WallCandidates(page_drawings) ==
    IF page_drawings = <<>> THEN <<>>
    ELSE CandidatesOf(Head(page_drawings)) \o WallCandidates(Tail(page_drawings))

\* distance < tolerance and length_diff < w1["length"] * 0.2, with the midpoint
\* coordinates doubled and both sides of the distance test squared
are_walls_parallel_and_close(w1, w2, tolerance) ==
    LET dx2 == (w2.start.x + w2.end.x) - (w1.start.x + w1.end.x)
        dy2 == (w2.start.y + w2.end.y) - (w1.start.y + w1.end.y)
        length_diff == Abs(w1.length - w2.length)
    IN  /\ dx2 * dx2 + dy2 * dy2 < 4 * tolerance * tolerance
        /\ 5 * length_diff < w1.length

merge_two_walls(w1, w2) ==
    [start |-> [x |-> (w1.start.x + w2.start.x) \div 2,
                y |-> (w1.start.y + w2.start.y) \div 2],
     end |-> [x |-> (w1.end.x + w2.end.x) \div 2,
              y |-> (w1.end.y + w2.end.y) \div 2],
     length |-> (w1.length + w2.length) \div 2,
     thickness |-> Abs(SegLength(w1.start, w2.start))]

\* a scan of every other unconsumed wall, not only of the later ones
MatchesOfAnyOrder(walls, i, used, tolerance) ==
    {j \in 1..Len(walls) :
        /\ j # i
        /\ j \notin used
        /\ are_walls_parallel_and_close(walls[i], walls[j], tolerance)}

\* the inner loop, lines 416-422: the later unconsumed walls that qualify
MatchesOf(walls, i, used, tolerance) ==
    {j \in (i + 1)..Len(walls) :
        /\ j \notin used
        /\ are_walls_parallel_and_close(walls[i], walls[j], tolerance)}

\* the closest qualifying wall, not the first
ClosestMatch(walls, i, used, tolerance) ==
    LET found == MatchesOf(walls, i, used, tolerance)
        d(j) == SegLength([x |-> walls[i].start.x + walls[i].end.x,
                           y |-> walls[i].start.y + walls[i].end.y],
                          [x |-> walls[j].start.x + walls[j].end.x,
                           y |-> walls[j].start.y + walls[j].end.y])
    IN  IF found = {} THEN 0
        ELSE CHOOSE j \in found : \A k \in found : d(j) <= d(k)

\* lines 416-428: the first qualifying j ends the scan (break); 0 when none
FirstMatch(walls, i, used, tolerance) ==
    LET found == MatchesOf(walls, i, used, tolerance)
    IN  IF found = {} THEN 0 ELSE SetMin(found)

RECURSIVE MergeLoop(_, _, _, _, _)
MergeLoop(walls, tolerance, i, used, merged) ==
    IF i > Len(walls) THEN merged
    ELSE IF i \in used THEN MergeLoop(walls, tolerance, i + 1, used, merged)
    ELSE LET j == FirstMatch(walls, i, used, tolerance)
         IN  IF j # 0
             THEN MergeLoop(walls, tolerance, i + 1, used \cup {i, j},
                            Append(merged, merge_two_walls(walls[i], walls[j])))
             ELSE MergeLoop(walls, tolerance, i + 1, used, Append(merged, walls[i]))

merge_parallel_walls(walls, tolerance) ==
    IF Len(walls) < 2 THEN walls
    ELSE MergeLoop(walls, tolerance, 1, {}, <<>>)

DefaultTolerance == U(15)

extract_walls_enhanced(page_drawings) ==
    merge_parallel_walls(WallCandidates(page_drawings), DefaultTolerance)

----------------------------------------------------------------------------
(* extract_doors, extract_windows *)

RECURSIVE SumX(_)
SumX(ps) == IF ps = <<>> THEN 0 ELSE Head(ps).x + SumX(Tail(ps))

RECURSIVE SumY(_)
SumY(ps) == IF ps = <<>> THEN 0 ELSE Head(ps).y + SumY(Tail(ps))

DoorsOf(p) ==
    IF p.kind = "c" /\ Len(p.pts) >= 2
    THEN << [position |-> [x |-> SumX(p.pts) \div Len(p.pts),
                           y |-> SumY(p.pts) \div Len(p.pts)],
             width |-> None,
             type |-> "swing"] >>
    ELSE <<>>

RECURSIVE extract_doors(_)
extract_doors(page_drawings) ==
    IF page_drawings = <<>> THEN <<>>
    ELSE DoorsOf(Head(page_drawings)) \o extract_doors(Tail(page_drawings))

WindowsOf(p) ==
    IF /\ Tenths(1) < p.width
       /\ p.width < Tenths(3)
       /\ p.kind = "re"
       /\ RectWidth(p) < U(50)
       /\ RectHeight(p) < U(50)
    THEN << [position |-> [x |-> (p.pts[1].x + p.pts[2].x) \div 2,
                           y |-> (p.pts[1].y + p.pts[2].y) \div 2],
             width |-> Max2(RectWidth(p), RectHeight(p))] >>
    ELSE <<>>

RECURSIVE extract_windows(_)
extract_windows(page_drawings) ==
    IF page_drawings = <<>> THEN <<>>
    ELSE WindowsOf(Head(page_drawings)) \o extract_windows(Tail(page_drawings))

----------------------------------------------------------------------------
(* Text.  A string is a sequence of one-character strings. *)

Digits == <<"0", "1", "2", "3", "4", "5", "6", "7", "8", "9">>

LowerCase == <<"a", "b", "c", "d", "e", "f", "g", "h", "i", "j", "k", "l", "m",
               "n", "o", "p", "q", "r", "s", "t", "u", "v", "w", "x", "y", "z">>

UpperCase == <<"A", "B", "C", "D", "E", "F", "G", "H", "I", "J", "K", "L", "M",
               "N", "O", "P", "Q", "R", "S", "T", "U", "V", "W", "X", "Y", "Z">>

IndexIn(alphabet, c) ==
    IF \E k \in 1..Len(alphabet) : alphabet[k] = c
    THEN CHOOSE k \in 1..Len(alphabet) : alphabet[k] = c
    ELSE 0

IsDigit(c) == IndexIn(Digits, c) # 0

DigitVal(c) == IndexIn(Digits, c) - 1

\* \s
IsSpace(c) == c = " "

\* \w
IsWordChar(c) ==
    IsDigit(c) \/ IndexIn(LowerCase, c) # 0 \/ IndexIn(UpperCase, c) # 0 \/ c = "_"

LowerChar(c) == IF IndexIn(UpperCase, c) # 0 THEN LowerCase[IndexIn(UpperCase, c)] ELSE c

\* str.lower()
Lower(t) == [k \in 1..Len(t) |-> LowerChar(t[k])]

RECURSIVE LStrip(_)
LStrip(t) == IF t # <<>> /\ IsSpace(Head(t)) THEN LStrip(Tail(t)) ELSE t

RECURSIVE RStrip(_)
RStrip(t) ==
    IF t # <<>> /\ IsSpace(t[Len(t)]) THEN RStrip(SubSeq(t, 1, Len(t) - 1)) ELSE t

\* str.strip()
Strip(t) == RStrip(LStrip(t))

\* t[s:].startswith(lit)
StartsAt(t, s, lit) ==
    /\ s + Len(lit) - 1 <= Len(t)
    /\ \A k \in 1..Len(lit) : t[s + k - 1] = lit[k]

\* lit in t
Contains(t, lit) == \E s \in 1..Len(t) : StartsAt(t, s, lit)

\* the index after the longest run of digits that starts at s
RECURSIVE DigitsEnd(_, _)
DigitsEnd(t, s) == IF s <= Len(t) /\ IsDigit(t[s]) THEN DigitsEnd(t, s + 1) ELSE s

\* the index after the longest run of whitespace that starts at s
RECURSIVE SpacesEnd(_, _)
SpacesEnd(t, s) == IF s <= Len(t) /\ IsSpace(t[s]) THEN SpacesEnd(t, s + 1) ELSE s

\* (\d+(?:\.\d+)?) at s: the index after it, s when there is no digit at s.
\* What follows the group in each pattern is no digit and no dot, so the
\* greedy reading is the only one that can succeed.
NumberEnd(t, s) ==
    LET e == DigitsEnd(t, s)
    IN  IF e = s THEN s
        ELSE IF e <= Len(t) /\ t[e] = "." /\ DigitsEnd(t, e + 1) > e + 1
             THEN DigitsEnd(t, e + 1)
             ELSE e

NoMatch == [g1 |-> <<>>, g2 |-> <<>>, lastindex |-> 0]

Group1(t, s, e) == [g1 |-> SubSeq(t, s, e - 1), g2 |-> <<>>, lastindex |-> 1]

\* re.IGNORECASE literal
UnitAt(t, s, lit) == StartsAt(Lower(t), s, lit)

\* patterns[k] anchored at s (lines 185-191)
PatternAt(k, t, s) ==
    LET e == NumberEnd(t, s)
        u == SpacesEnd(t, e)
        d == DigitsEnd(t, s)
    IN  CASE k = 1 ->        \* (\d+(?:\.\d+)?)\s*mm
               IF e > s /\ UnitAt(t, u, <<"m", "m">>) THEN Group1(t, s, e) ELSE NoMatch
          [] k = 2 ->        \* (\d+(?:\.\d+)?)\s*m(?!\w)
               IF /\ e > s
                  /\ UnitAt(t, u, <<"m">>)
                  /\ (u + 1 > Len(t) \/ ~IsWordChar(t[u + 1]))
               THEN Group1(t, s, e) ELSE NoMatch
          [] k = 3 ->        \* (\d+(?:\.\d+)?)\s*cm
               IF e > s /\ UnitAt(t, u, <<"c", "m">>) THEN Group1(t, s, e) ELSE NoMatch
          [] k = 4 ->        \* (\d+)'[\s-]?(\d+)\"?
               LET q == d + 1
                   a == IF /\ q <= Len(t)
                           /\ (IsSpace(t[q]) \/ t[q] = "-")
                           /\ DigitsEnd(t, q + 1) > q + 1
                        THEN q + 1 ELSE q
                   f == DigitsEnd(t, a)
               IN  IF d > s /\ d <= Len(t) /\ t[d] = "'" /\ f > a
                   THEN [g1 |-> SubSeq(t, s, d - 1), g2 |-> SubSeq(t, a, f - 1),
                         lastindex |-> 2]
                   ELSE NoMatch
          [] k = 5 ->        \* (\d{3,5})(?:\s|$)
               IF d - s >= 3 /\ d - s <= 5 /\ (d > Len(t) \/ IsSpace(t[d]))
               THEN Group1(t, s, d) ELSE NoMatch

\* re.search(patterns[k], t, re.IGNORECASE): the leftmost match
Search(k, t) ==
    LET hits == {s \in 1..Len(t) : PatternAt(k, t, s).lastindex > 0}
    IN  IF hits = {} THEN NoMatch ELSE PatternAt(k, t, SetMin(hits))

NumPatterns == 5

(* Floats of the text parser are exact decimal fractions num / den, den a
   power of ten, kept in lowest such terms. *)
RECURSIVE Norm(_)
Norm(r) ==
    IF r.den > 1 /\ r.num % 10 = 0
    THEN Norm([num |-> r.num \div 10, den |-> r.den \div 10])
    ELSE r

RECURSIVE DigitsValue(_)
DigitsValue(ds) ==
    IF ds = <<>> THEN 0
    ELSE 10 * DigitsValue(SubSeq(ds, 1, Len(ds) - 1)) + DigitVal(ds[Len(ds)])

RECURSIVE Pow10(_)
Pow10(n) == IF n = 0 THEN 1 ELSE 10 * Pow10(n - 1)

\* float(g) for g matching \d+(?:\.\d+)?
ParseFloat(g) ==
    LET e == DigitsEnd(g, 1)
        frac == SubSeq(g, e + 1, Len(g))
    IN  Norm([num |-> DigitsValue(SubSeq(g, 1, e - 1)) * Pow10(Len(frac))
                        + DigitsValue(frac),
              den |-> Pow10(Len(frac))])

Times(r, n) == Norm([num |-> r.num * n, den |-> r.den])

\* (feet * 12 + inches) * 25.4
Imperial(feet, inches) ==
    Norm([num |-> (feet.num * 12 + inches.num) * 254, den |-> 10])

Whole(n) == [num |-> n, den |-> 1]

parse_dimension_to_mm(text, match) ==
    LET text_lower == Lower(text)
    IN  IF Contains(text_lower, <<"m", "m">>) THEN
            Some(ParseFloat(match.g1))
        ELSE IF Contains(text_lower, <<"c", "m">>) THEN
            Some(Times(ParseFloat(match.g1), 10))
        ELSE IF Contains(text_lower, <<"m">>) /\ ~Contains(text_lower, <<"m", "m">>) THEN
            Some(Times(ParseFloat(match.g1), 1000))
        ELSE IF Contains(text, <<"'">>) \/ Contains(text, <<"\"">>) THEN
            LET feet == ParseFloat(match.g1)
                inches == IF match.lastindex >= 2 THEN ParseFloat(match.g2) ELSE Whole(0)
            IN  Some(Imperial(feet, inches))
        ELSE
            LET num == ParseFloat(match.g1)
            IN  IF num.num >= 100 * num.den THEN Some(num) ELSE Some(Times(num, 1000))

\* the first pattern, in list order, that matches; 0 when none does
FirstPattern(text) ==
    LET matching == {k \in 1..NumPatterns : Search(k, text).lastindex > 0}
    IN  IF matching = {} THEN 0 ELSE SetMin(matching)

\* a span is [text, bbox]; bbox = <<x0, y0, x1, y1>>
BBoxCenter(bbox) ==
    [x |-> (bbox[1] + bbox[3]) \div 2, y |-> (bbox[2] + bbox[4]) \div 2]

DimensionsOf(span) ==
    LET text == Strip(span.text)
        k == FirstPattern(text)
    IN  IF k = 0 THEN <<>>
        ELSE << [value |-> text,
                 numeric_value |-> parse_dimension_to_mm(text, Search(k, text)),
                 position |-> BBoxCenter(span.bbox)] >>

RECURSIVE extract_dimensions(_)
extract_dimensions(spans) ==
    IF spans = <<>> THEN <<>>
    ELSE DimensionsOf(Head(spans)) \o extract_dimensions(Tail(spans))


----------------------------------------------------------------------------
(* extract_all_text, extract_room_labels, extract_rooms, detect_scale.
   A page's text is its spans, one span to a line of page.get_text("text"). *)

RECURSIVE extract_all_text(_)
extract_all_text(spans) ==
    IF spans = <<>> THEN <<>>
    ELSE (IF Strip(Head(spans).text) # <<>> THEN <<Strip(Head(spans).text)>> ELSE <<>>)
         \o extract_all_text(Tail(spans))

room_keywords ==
    << <<"k", "i", "t", "c", "h", "e", "n">>,
       <<"b", "e", "d", "r", "o", "o", "m">>,
       <<"b", "a", "t", "h", "r", "o", "o", "m">>,
       <<"l", "i", "v", "i", "n", "g">>,
       <<"d", "i", "n", "i", "n", "g">>,
       <<"h", "a", "l", "l">>,
       <<"h", "a", "l", "l", "w", "a", "y">>,
       <<"c", "o", "r", "r", "i", "d", "o", "r">>,
       <<"u", "t", "i", "l", "i", "t", "y">>,
       <<"s", "t", "o", "r", "a", "g", "e">>,
       <<"g", "a", "r", "a", "g", "e">>,
       <<"o", "f", "f", "i", "c", "e">>,
       <<"s", "t", "u", "d", "y">>,
       <<"e", "n", "-", "s", "u", "i", "t", "e">>,
       <<"e", "n", "s", "u", "i", "t", "e">>,
       <<"w", "c">>,
       <<"t", "o", "i", "l", "e", "t">>,
       <<"s", "h", "o", "w", "e", "r">>,
       <<"b", "a", "t", "h">>,
       <<"l", "o", "u", "n", "g", "e">>,
       <<"s", "i", "t", "t", "i", "n", "g">>,
       <<"f", "a", "m", "i", "l", "y">>,
       <<"b", "r", "e", "a", "k", "f", "a", "s", "t">>,
       <<"p", "a", "n", "t", "r", "y">>,
       <<"l", "a", "u", "n", "d", "r", "y">>,
       <<"c", "l", "o", "s", "e", "t">>,
       <<"w", "a", "r", "d", "r", "o", "b", "e">>,
       <<"l", "a", "n", "d", "i", "n", "g">>,
       <<"s", "t", "a", "i", "r", "s">>,
       <<"p", "o", "r", "c", "h">>,
       <<"e", "n", "t", "r", "a", "n", "c", "e">>,
       <<"r", "e", "c", "e", "p", "t", "i", "o", "n">>,
       <<"d", "r", "a", "w", "i", "n", "g">>,
       <<"m", "a", "s", "t", "e", "r">>,
       <<"g", "u", "e", "s", "t">>,
       <<"k", "i", "d", "s">>,
       <<"k", "i", "t">>,
       <<"b", "e", "d">>,
       <<"b", "t", "h">>,
       <<"l", "i", "v">>,
       <<"d", "i", "n">> >>

RoomLabelsOf(span) ==
    LET text == Strip(span.text)
        text_lower == Lower(text)
    IN  IF \E k \in 1..Len(room_keywords) : Contains(text_lower, room_keywords[k])
        THEN << [text |-> text, position |-> BBoxCenter(span.bbox)] >>
        ELSE <<>>

RECURSIVE extract_room_labels(_)
extract_room_labels(spans) ==
    IF spans = <<>> THEN <<>>
    ELSE RoomLabelsOf(Head(spans)) \o extract_room_labels(Tail(spans))

extract_rooms(spans, walls) ==
    LET room_labels == extract_room_labels(spans)
    IN  [k \in 1..Len(room_labels) |->
            [name |-> room_labels[k].text,
             label |-> room_labels[k].text,
             vertices |-> <<>>,
             area |-> 0,
             perimeter |-> 0,
             label_position |-> room_labels[k].position]]

\* (?:scale\s*)?1\s*:\s*(\d+) with its "1" at s: the index after the match,
\* 0 when there is none.  The optional prefix holds no "1", so it moves no
\* match and changes no group.
ScaleAt(t, s) ==
    LET c == SpacesEnd(t, s + 1)
        n == SpacesEnd(t, c + 1)
    IN  IF /\ s <= Len(t) /\ t[s] = "1"
           /\ c <= Len(t) /\ t[c] = ":"
           /\ DigitsEnd(t, n) > n
        THEN n ELSE 0

\* a detector that assumes the common 1:100 when it is told nothing
AssumedScale(dimensions, raw_text) == Some(Whole(100))

RECURSIVE detect_scale(_, _)
detect_scale(dimensions, raw_text) ==
    IF raw_text = <<>> THEN None
    ELSE LET text == Head(raw_text)
             hits == {s \in 1..Len(text) : ScaleAt(text, s) # 0}
         IN  IF hits # {}
             THEN LET n == ScaleAt(text, SetMin(hits))
                  IN  Some(ParseFloat(SubSeq(text, n, DigitsEnd(text, n) - 1)))
             ELSE detect_scale(dimensions, Tail(raw_text))

----------------------------------------------------------------------------
(* The two scoring profiles.  A confidence is counted in hundredths. *)

\* a profile that distrusts crowded pages: above 50 walls the wall bucket
\* falls back to its lowest step
CrowdedPagePenalised(walls, dimensions, raw_text) ==
    LET s1 == IF Len(walls) > 50 THEN 10
              ELSE IF Len(walls) > 20 THEN 30
              ELSE IF Len(walls) > 5 THEN 20
              ELSE IF Len(walls) > 0 THEN 10
              ELSE 0
        s2 == IF Len(dimensions) > 10 THEN 30
              ELSE IF Len(dimensions) > 5 THEN 20
              ELSE IF Len(dimensions) > 0 THEN 10
              ELSE 0
        s3 == IF Len(raw_text) > 20 THEN 20
              ELSE IF Len(raw_text) > 5 THEN 10
              ELSE 0
    IN  Min2(s1 + s2 + s3, 100)

calculate_confidence(walls, dimensions, raw_text) ==
    LET s1 == IF Len(walls) > 50 THEN 40
              ELSE IF Len(walls) > 20 THEN 30
              ELSE IF Len(walls) > 5 THEN 20
              ELSE IF Len(walls) > 0 THEN 10
              ELSE 0
        s2 == IF Len(dimensions) > 10 THEN 30
              ELSE IF Len(dimensions) > 5 THEN 20
              ELSE IF Len(dimensions) > 0 THEN 10
              ELSE 0
        s3 == IF Len(raw_text) > 20 THEN 20
              ELSE IF Len(raw_text) > 5 THEN 10
              ELSE 0
    IN  Min2(s1 + s2 + s3, 100)

\* the text bucket taken off the score instead of added to it
EnhancedTextSubtracted(walls, dimensions, raw_text, rooms, doors, windows) ==
    LET s1 == IF Len(walls) > 30 THEN 30
              ELSE IF Len(walls) > 15 THEN 20
              ELSE IF Len(walls) > 5 THEN 10
              ELSE 0
        s2 == IF Len(dimensions) > 10 THEN 25
              ELSE IF Len(dimensions) > 5 THEN 15
              ELSE IF Len(dimensions) > 0 THEN 5
              ELSE 0
        s3 == IF Len(rooms) > 5 THEN 20
              ELSE IF Len(rooms) > 2 THEN 10
              ELSE IF Len(rooms) > 0 THEN 5
              ELSE 0
        s4 == IF Len(doors) > 3 \/ Len(windows) > 3 THEN 15
              ELSE IF Len(doors) > 0 \/ Len(windows) > 0 THEN 5
              ELSE 0
        s5 == IF Len(raw_text) > 10 THEN 10
              ELSE IF Len(raw_text) > 0 THEN 5
              ELSE 0
    IN  Min2(s1 + s2 + s3 + s4 - s5, 100)

calculate_confidence_enhanced(walls, dimensions, raw_text, rooms, doors, windows) ==
    LET s1 == IF Len(walls) > 30 THEN 30
              ELSE IF Len(walls) > 15 THEN 20
              ELSE IF Len(walls) > 5 THEN 10
              ELSE 0
        s2 == IF Len(dimensions) > 10 THEN 25
              ELSE IF Len(dimensions) > 5 THEN 15
              ELSE IF Len(dimensions) > 0 THEN 5
              ELSE 0
        s3 == IF Len(rooms) > 5 THEN 20
              ELSE IF Len(rooms) > 2 THEN 10
              ELSE IF Len(rooms) > 0 THEN 5
              ELSE 0
        s4 == IF Len(doors) > 3 \/ Len(windows) > 3 THEN 15
              ELSE IF Len(doors) > 0 \/ Len(windows) > 0 THEN 5
              ELSE 0
        s5 == IF Len(raw_text) > 10 THEN 10
              ELSE IF Len(raw_text) > 0 THEN 5
              ELSE 0
    IN  Min2(s1 + s2 + s3 + s4 + s5, 100)


----------------------------------------------------------------------------
(* Geometry: a page is drawn primitive by primitive, then one extractor runs *)

MaxPrims == 3

Thick == Tenths(5)

Thin == Tenths(2)

Primitives ==
    { Line(Pt(0, 0), Pt(40, 0), Thick),
      Line(Pt(0, 10), Pt(40, 10), Thick),
      Line(Pt(0, 5), Pt(40, 5), Thick),
      Line(Pt(0, 50), Pt(40, 50), Thick),
      Line(Pt(0, 5), Pt(33, 5), Thick),
      Line(Pt(0, 0), Pt(28, 21), Thick),
      Line(Pt(0, 0), Pt(28, 21), Thin),
      Line(Pt(0, 0), Pt(40, 0), Thin),
      Line(Pt(0, 0), Pt(15, 0), Thick),
      Rect(Pt(0, 0), Pt(40, 30), Thick),
      Rect(Pt(0, 0), Pt(40, 0), Thick),
      Rect(Pt(0, 0), Pt(12, 11), Thin),
      Rect(Pt(0, 0), Pt(8, 8), Thin),
      Curve(<<Pt(0, 0), Pt(0, 4), Pt(4, 8), Pt(8, 8)>>, Thick) }

GeomStart ==
    /\ drawings = <<>>
    /\ phase = "build"
    /\ candidates = <<>>
    /\ out = <<>>

DimStart ==
    /\ span_text = <<>>
    /\ scanned = FALSE
    /\ dims = <<>>

Elems(n) == [k \in 1..n |-> k]

\* both scoring profiles on lists of the counted sizes
Profiles(c) ==
    [light |-> calculate_confidence(Elems(c.walls), Elems(c.dimensions),
                                    Elems(c.raw_text)),
     enhanced |-> calculate_confidence_enhanced(
                      Elems(c.walls), Elems(c.dimensions), Elems(c.raw_text),
                      Elems(c.rooms), Elems(c.doors), Elems(c.windows))]

NoElements ==
    [walls |-> 0, dimensions |-> 0, raw_text |-> 0, rooms |-> 0, doors |-> 0,
     windows |-> 0]

ConfStart ==
    /\ counts = NoElements
    /\ confidence = Profiles(NoElements)

DocStart ==
    /\ doc = <<>>
    /\ entry = "none"
    /\ pc = "idle"
    /\ handle = "none"
    /\ page_num = 0
    /\ results = <<>>
    /\ retval = None

GeomInit == GeomStart /\ DimStart /\ ConfStart /\ DocStart

AddPrimitive ==
    /\ phase = "build"
    /\ Len(drawings) < MaxPrims
    /\ \E p \in Primitives : drawings' = Append(drawings, p)
    /\ UNCHANGED <<phase, candidates, out, dimVars, confVars, docVars>>

RunExtractWalls ==
    /\ phase = "build"
    /\ phase' = "extract_walls"
    /\ out' = extract_walls(drawings)
    /\ UNCHANGED <<drawings, candidates, dimVars, confVars, docVars>>

RunExtractWallsEnhanced ==
    /\ phase = "build"
    /\ phase' = "extract_walls_enhanced"
    /\ candidates' = WallCandidates(drawings)
    /\ out' = extract_walls_enhanced(drawings)
    /\ UNCHANGED <<drawings, dimVars, confVars, docVars>>

RunExtractDoors ==
    /\ phase = "build"
    /\ phase' = "extract_doors"
    /\ out' = extract_doors(drawings)
    /\ UNCHANGED <<drawings, candidates, dimVars, confVars, docVars>>

RunExtractWindows ==
    /\ phase = "build"
    /\ phase' = "extract_windows"
    /\ out' = extract_windows(drawings)
    /\ UNCHANGED <<drawings, candidates, dimVars, confVars, docVars>>

GeomNext ==
    \/ AddPrimitive
    \/ RunExtractWalls
    \/ RunExtractWallsEnhanced
    \/ RunExtractDoors
    \/ RunExtractWindows

SpecGeom == GeomInit /\ [][GeomNext]_vars

----------------------------------------------------------------------------
(* Dimension scan: the text of one span is typed character by character,
   then extract_dimensions runs on the page that holds the span *)

MaxTextLen == 4

Chars == {"0", "1", "5", "m", "M", "c", " ", "'", "\"", "."}

SpanBBox == <<U(0), U(0), U(30), U(10)>>

DimInit == GeomStart /\ DimStart /\ ConfStart /\ DocStart

TypeChar ==
    /\ ~scanned
    /\ Len(span_text) < MaxTextLen
    /\ \E c \in Chars : span_text' = Append(span_text, c)
    /\ UNCHANGED <<scanned, dims, geomVars, confVars, docVars>>

RunExtractDimensions ==
    /\ ~scanned
    /\ scanned' = TRUE
    /\ dims' = extract_dimensions(<< [text |-> span_text, bbox |-> SpanBBox] >>)
    /\ UNCHANGED <<span_text, geomVars, confVars, docVars>>

DimNext == TypeChar \/ RunExtractDimensions

SpecDim == DimInit /\ [][DimNext]_vars

----------------------------------------------------------------------------
(* Scoring: the element counts of a page grow over the values on
   both sides of every threshold of the two profiles, and both profiles score
   each combination *)

Beyond == 1

Around(thresholds) == {0} \cup {t + d : t \in thresholds, d \in 0..Beyond}

CountValues ==
    [walls |-> Around({0, 5, 15, 20, 30, 50}),
     dimensions |-> Around({0, 5, 10}),
     raw_text |-> Around({0, 5, 10, 20}),
     rooms |-> Around({0, 2, 5}),
     doors |-> Around({0, 3}),
     windows |-> Around({0, 3})]

ConfInit == GeomStart /\ DimStart /\ ConfStart /\ DocStart

\* a page with more elements of one kind is extracted and scored
AddElements ==
    /\ \E kind \in DOMAIN counts :
          LET more == {n \in CountValues[kind] : n > counts[kind]}
          IN  /\ more # {}
              /\ counts' = [counts EXCEPT ![kind] = SetMin(more)]
    /\ confidence' = Profiles(counts')
    /\ UNCHANGED <<geomVars, dimVars, docVars>>

ConfNext == AddElements

SpecConf == ConfInit /\ [][ConfNext]_vars

----------------------------------------------------------------------------
(* The orchestrator: extract_floor_plan and extract_all_pages.
   A page is [drawings, spans, rect, damaged]; page.get_drawings() of a
   damaged page raises. *)

\* lines 27-63, for a page whose calls all return
FloorPlanRecord(page) ==
    LET walls == extract_walls_enhanced(page.drawings)
        dimensions == extract_dimensions(page.spans)
        raw_text == extract_all_text(page.spans)
        rooms == extract_rooms(page.spans, walls)
        doors == extract_doors(page.drawings)
        windows == extract_windows(page.drawings)
        scale == detect_scale(dimensions, raw_text)
        conf == calculate_confidence_enhanced(walls, dimensions, raw_text,
                                              rooms, doors, windows)
    IN  [walls |-> walls,
         rooms |-> rooms,
         dimensions |-> dimensions,
         doors |-> doors,
         windows |-> windows,
         page_width |-> page.rect.width,
         page_height |-> page.rect.height,
         scale_factor |-> scale,
         raw_text |-> raw_text,
         extraction_confidence |-> conf,
         confidence |-> conf]

\* lines 74-90, for a page whose calls all return
PageRecord(page) ==
    LET walls == extract_walls(page.drawings)
        dimensions == extract_dimensions(page.spans)
        raw_text == extract_all_text(page.spans)
        conf == calculate_confidence(walls, dimensions, raw_text)
    IN  [walls |-> walls,
         rooms |-> <<>>,
         dimensions |-> dimensions,
         doors |-> <<>>,
         windows |-> <<>>,
         page_width |-> page.rect.width,
         page_height |-> page.rect.height,
         scale_factor |-> detect_scale(dimensions, raw_text),
         raw_text |-> raw_text,
         extraction_confidence |-> conf]

\* the first page whatever the loop variable
PageAtFirst(d, n) == d[1]

\* doc[page_num], pages counted from 0
PageAt(d, n) == d[n + 1]

MaxPages == 2

A4 == [width |-> U(595), height |-> U(842)]

Span(t) == [text |-> t, bbox |-> SpanBBox]

PageEmpty ==
    [drawings |-> <<>>, spans |-> <<>>, rect |-> A4, damaged |-> FALSE]

PagePlan ==
    [drawings |-> << Line(Pt(0, 0), Pt(40, 0), Thick),
                     Line(Pt(0, 5), Pt(40, 5), Thick),
                     Rect(Pt(0, 0), Pt(40, 30), Thick),
                     Rect(Pt(0, 0), Pt(12, 11), Thin),
                     Curve(<<Pt(0, 0), Pt(0, 4), Pt(4, 8), Pt(8, 8)>>, Thick) >>,
     spans |-> << Span(<<"4", "5", "0", "0", "m", "m">>), Span(<<" ", "K", "i", "t", "c", "h", "e", "n", " ">>), Span(<<"S", "c", "a", "l", "e", " ", "1", ":", "1", "0", "0">>) >>,
     rect |-> A4, damaged |-> FALSE]

PageStrip ==
    [drawings |-> << Rect(Pt(0, 0), Pt(40, 0), Thick) >>,
     spans |-> << Span(<<"2", "4", "0", "0", " ", "m", "i", "n">>) >>,
     rect |-> A4, damaged |-> FALSE]

PageDamaged ==
    [drawings |-> <<>>, spans |-> <<>>, rect |-> A4, damaged |-> TRUE]

SamplePages == {PageEmpty, PagePlan, PageStrip, PageDamaged}

RECURSIVE DocsOfLength(_)
DocsOfLength(n) ==
    IF n = 0 THEN {<<>>}
    ELSE {Append(d, p) : d \in DocsOfLength(n - 1), p \in SamplePages}

Docs == UNION {DocsOfLength(n) : n \in 0..MaxPages}

Init == GeomStart /\ DimStart /\ ConfStart /\ DocStart

\* fitz.open: lines 22 and 68-69
Open ==
    /\ pc = "idle"
    /\ \E e \in {"extract_floor_plan", "extract_all_pages"} :
          /\ entry' = e
          /\ pc' = IF e = "extract_floor_plan" THEN "fp_page_count" ELSE "ap_loop"
    /\ \E d \in Docs : doc' = d
    /\ handle' = "open"
    /\ UNCHANGED <<page_num, results, retval, geomVars, dimVars, confVars>>

\* lines 24-25
FpCheckPageCount ==
    /\ pc = "fp_page_count"
    /\ pc' = IF Len(doc) = 0 THEN "raised" ELSE "fp_extract"
    /\ UNCHANGED <<doc, entry, handle, page_num, results, retval,
                   geomVars, dimVars, confVars>>

\* lines 27-47
FpExtract ==
    /\ pc = "fp_extract"
    /\ IF doc[1].damaged
       THEN pc' = "raised" /\ UNCHANGED results
       ELSE pc' = "fp_close" /\ results' = <<FloorPlanRecord(doc[1])>>
    /\ UNCHANGED <<doc, entry, handle, page_num, retval, geomVars, dimVars, confVars>>

\* line 49
FpClose ==
    /\ pc = "fp_close"
    /\ handle' = "closed"
    /\ pc' = "fp_return"
    /\ UNCHANGED <<doc, entry, page_num, results, retval, geomVars, dimVars, confVars>>

\* lines 51-63
FpReturn ==
    /\ pc = "fp_return"
    /\ retval' = results[1]
    /\ pc' = "returned"
    /\ UNCHANGED <<doc, entry, handle, page_num, results, geomVars, dimVars, confVars>>

\* lines 71-90: one turn of the loop, or its end
ApLoop ==
    /\ pc = "ap_loop"
    /\ IF page_num < Len(doc)
       THEN IF PageAt(doc, page_num).damaged
            THEN pc' = "raised" /\ UNCHANGED <<page_num, results>>
            ELSE /\ results' = Append(results, PageRecord(PageAt(doc, page_num)))
                 /\ page_num' = page_num + 1
                 /\ pc' = "ap_loop"
       ELSE pc' = "ap_close" /\ UNCHANGED <<page_num, results>>
    /\ UNCHANGED <<doc, entry, handle, retval, geomVars, dimVars, confVars>>

\* line 92
ApClose ==
    /\ pc = "ap_close"
    /\ handle' = "closed"
    /\ pc' = "ap_return"
    /\ UNCHANGED <<doc, entry, page_num, results, retval, geomVars, dimVars, confVars>>

\* line 93
ApReturn ==
    /\ pc = "ap_return"
    /\ retval' = results
    /\ pc' = "returned"
    /\ UNCHANGED <<doc, entry, handle, page_num, results, geomVars, dimVars, confVars>>

Next ==
    \/ Open
    \/ FpCheckPageCount
    \/ FpExtract
    \/ FpClose
    \/ FpReturn
    \/ ApLoop
    \/ ApClose
    \/ ApReturn

Spec == Init /\ [][Next]_vars

----------------------------------------------------------------------------
(* Properties of the geometry extractors *)

\* four times the squared distance of the midpoints of a and b
MidDistSq4(a, b) ==
    LET dx2 == (a.start.x + a.end.x) - (b.start.x + b.end.x)
        dy2 == (a.start.y + a.end.y) - (b.start.y + b.end.y)
    IN  dx2 * dx2 + dy2 * dy2

\* the merge condition as the specification states it, for candidate a and a
\* later candidate b: midpoints closer than 15 units and lengths differing by
\* less than a fifth of a's length
NearDuplicate(a, b) ==
    /\ MidDistSq4(a, b) < 4 * U(15) * U(15)
    /\ 5 * Abs(a.length - b.length) < a.length

\* the pairs a greedy pass in input order forms among the first k candidates
RECURSIVE GreedyPairs(_, _)
GreedyPairs(L, k) ==
    IF k = 0 THEN {}
    ELSE LET before == GreedyPairs(L, k - 1)
             consumed == {p[1] : p \in before} \cup {p[2] : p \in before}
             later == {j \in (k + 1)..Len(L) :
                          j \notin consumed /\ NearDuplicate(L[k], L[j])}
         IN  IF k \in consumed \/ later = {} THEN before
             ELSE before \cup {<<k, SetMin(later)>>}

IsMergeOf(m, a, b) ==
    /\ 2 * m.start.x = a.start.x + b.start.x
    /\ 2 * m.start.y = a.start.y + b.start.y
    /\ 2 * m.end.x = a.end.x + b.end.x
    /\ 2 * m.end.y = a.end.y + b.end.y
    /\ 2 * m.length = a.length + b.length

\* `result` is what the greedy pass makes of L: one entry per candidate that is
\* not the second of a pair, in input order; the merged wall for the first of
\* a pair, the candidate itself otherwise
IsGreedyMerge(L, result) ==
    LET pairs == GreedyPairs(L, Len(L))
        seconds == {p[2] : p \in pairs}
        kept == (1..Len(L)) \ seconds
        pos(i) == Cardinality({k \in kept : k <= i})
    IN  /\ Len(result) = Cardinality(kept)
        /\ \A i \in kept :
              IF \E p \in pairs : p[1] = i
              THEN \E p \in pairs : p[1] = i /\ IsMergeOf(result[pos(i)], L[i], L[p[2]])
              ELSE result[pos(i)] = L[i]

\* C1: the merger is a greedy single pass in input order: an unconsumed
\* candidate merges with the first later unconsumed candidate that is a near
\* duplicate of it, both are consumed, a candidate without one is emitted
\* unchanged; two candidates with midpoints 5 apart and lengths within 20%
\* give one wall, two candidates with midpoints 50 apart give two.
C1_GreedyFirstMatch ==
    phase = "extract_walls_enhanced" =>
        /\ IsGreedyMerge(candidates, out)
        /\ Len(candidates) = 2 =>
              /\ ( /\ MidDistSq4(candidates[1], candidates[2]) = 4 * U(5) * U(5)
                   /\ 5 * Abs(candidates[1].length - candidates[2].length)
                          < candidates[1].length )
                 => Len(out) = 1
              /\ MidDistSq4(candidates[1], candidates[2]) = 4 * U(50) * U(50)
                 => Len(out) = 2

\* three candidates, the first a near duplicate of both others and closer to
\* the third: it merged with the second, and the third came out unchanged
C1_Witness ==
    /\ phase = "extract_walls_enhanced"
    /\ Len(candidates) = 3
    /\ NearDuplicate(candidates[1], candidates[2])
    /\ NearDuplicate(candidates[1], candidates[3])
    /\ MidDistSq4(candidates[1], candidates[3]) < MidDistSq4(candidates[1], candidates[2])
    /\ Len(out) = 2
    /\ IsMergeOf(out[1], candidates[1], candidates[2])
    /\ out[2] = candidates[3]

IsWallRect(p) == p.kind = "re" /\ RectWidth(p) > U(10) /\ RectHeight(p) > U(10)

\* C6: in extract_walls a Rect of width W and height H, both above 10, yields
\* exactly 4 walls, in edge order, of lengths W, H, W, H, each ending where the
\* next starts and the fourth ending where the first starts, so the lengths sum
\* to 2W + 2H.
C6_RectFourWalls ==
    phase = "extract_walls" =>
        \A k \in 1..Len(drawings) :
            IsWallRect(drawings[k]) =>
                LET W == drawings[k].pts[2].x - drawings[k].pts[1].x
                    H == drawings[k].pts[2].y - drawings[k].pts[1].y
                    off == Len(extract_walls(SubSeq(drawings, 1, k - 1)))
                    e(n) == out[off + n]
                IN  /\ Len(extract_walls(SubSeq(drawings, 1, k))) = off + 4
                    /\ Len(out) >= off + 4
                    /\ e(1).start = drawings[k].pts[1]
                    /\ <<e(1).length, e(2).length, e(3).length, e(4).length>>
                          = <<W, H, W, H>>
                    /\ e(1).end = e(2).start
                    /\ e(2).end = e(3).start
                    /\ e(3).end = e(4).start
                    /\ e(4).end = e(1).start
                    /\ e(1).length + e(2).length + e(3).length + e(4).length
                          = 2 * W + 2 * H

C6_Witness ==
    /\ phase = "extract_walls"
    /\ Len(drawings) = 2
    /\ drawings[1].kind = "l"
    /\ IsWallRect(drawings[2])
    /\ Len(out) = 5

\* C7: in the single-page pipeline every Rect with width or height above 10
\* contributes its 4 edges to the candidate list handed to the merger.
C7_RectEdgesAreCandidates ==
    phase = "extract_walls_enhanced" =>
        \A k \in 1..Len(drawings) :
            ( /\ drawings[k].kind = "re"
              /\ (RectWidth(drawings[k]) > U(10) \/ RectHeight(drawings[k]) > U(10)) )
            => \A n \in 1..4 :
                  \E c \in 1..Len(candidates) :
                      /\ candidates[c].start = RectEdges(drawings[k])[n].start
                      /\ candidates[c].end = RectEdges(drawings[k])[n].end

NoNearDuplicatePair(L) ==
    \A i \in 1..Len(L) : \A j \in (i + 1)..Len(L) : ~NearDuplicate(L[i], L[j])

\* C8: on a list in which no pair i < j satisfies the merge condition, merging
\* the merged list again changes nothing: same walls, same order.
C8_MergeIdempotent ==
    (phase = "extract_walls_enhanced" /\ NoNearDuplicatePair(candidates)) =>
        merge_parallel_walls(out, DefaultTolerance) = out

\* two candidates or more without a pair i < j, among them a later one that
\* would take an earlier one as its near duplicate
C8_Witness ==
    /\ phase = "extract_walls_enhanced"
    /\ Len(candidates) >= 2
    /\ NoNearDuplicatePair(candidates)
    /\ NearDuplicate(candidates[2], candidates[1])
    /\ Len(out) = Len(candidates)

\* C4: for every combination of element counts both scoring profiles return a
\* confidence between 0 and 1 (0 and 100 hundredths).
C4_ConfidenceInUnitInterval ==
    /\ 0 <= confidence.light /\ confidence.light <= 100
    /\ 0 <= confidence.enhanced /\ confidence.enhanced <= 100

\* every count above its last threshold: the enhanced profile reaches 1, the
\* lightweight one its maximum
C4_Witness ==
    /\ \A kind \in DOMAIN counts : \A n \in CountValues[kind] : n <= counts[kind]
    /\ confidence.enhanced = 100
    /\ confidence.light = 90

----------------------------------------------------------------------------
(* Properties of the dimension scan *)

\* the unit conversion that belongs to pattern k, applied to its match
ConversionOf(k, match) ==
    CASE k = 1 -> ParseFloat(match.g1)
      [] k = 2 -> Times(ParseFloat(match.g1), 1000)
      [] k = 3 -> Times(ParseFloat(match.g1), 10)
      [] k = 4 -> Imperial(ParseFloat(match.g1), ParseFloat(match.g2))
      [] k = 5 -> IF DigitsValue(match.g1) >= 100
                  THEN Whole(DigitsValue(match.g1))
                  ELSE Whole(DigitsValue(match.g1) * 1000)

\* C5: the patterns are tried in the order mm, bare m, cm, feet-inches, bare
\* number; the first that matches the span wins, the span yields exactly one
\* dimension, and its numeric value is the winning pattern's conversion of the
\* match, whatever other unit letters the span text holds.
C5_ConversionOfWinningPattern ==
    scanned =>
        LET text == Strip(span_text)
            k == FirstPattern(text)
        IN  IF k = 0 THEN dims = <<>>
            ELSE /\ Len(dims) = 1
                 /\ dims[1].numeric_value = Some(ConversionOf(k, Search(k, text)))

----------------------------------------------------------------------------
(* Properties of the orchestrator *)

Exited == pc \in {"returned", "raised"}

\* C2: in both entry points the handle opened at the start is closed on every
\* exit path before control returns to the caller: the normal return, the
\* zero-page failure and an exception raised by an extraction step.
C2_HandleClosedOnEveryExit == Exited => handle = "closed"

\* C3: a document of zero pages ends in a hard failure, never in a returned
\* result, in extract_floor_plan and in extract_all_pages.
C3_ZeroPagesIsFailure == (Exited /\ Len(doc) = 0) => pc = "raised"

\* C9: for a document of n pages extract_all_pages returns n records in page
\* order; record k holds the walls of extract_walls on page k unmerged, no
\* rooms, doors or windows, and the 3-bucket confidence of page k's walls,
\* dimensions and raw text; nothing in it depends on another page.
C9_PerPageLightweightRecords ==
    (pc = "returned" /\ entry = "extract_all_pages") =>
        /\ Len(retval) = Len(doc)
        /\ \A k \in 1..Len(doc) :
              LET page == doc[k]
                  dimensions == extract_dimensions(page.spans)
                  raw_text == extract_all_text(page.spans)
              IN  /\ retval[k].walls = extract_walls(page.drawings)
                  /\ retval[k].rooms = <<>>
                  /\ retval[k].doors = <<>>
                  /\ retval[k].windows = <<>>
                  /\ retval[k].dimensions = dimensions
                  /\ retval[k].raw_text = raw_text
                  /\ retval[k].extraction_confidence
                        = calculate_confidence(extract_walls(page.drawings),
                                               dimensions, raw_text)

\* two pages of different content, the second with walls, dimensions and a
\* confidence of its own
C9_Witness ==
    /\ pc = "returned"
    /\ entry = "extract_all_pages"
    /\ Len(doc) = 2
    /\ doc[1] = PageStrip
    /\ doc[2] = PagePlan
    /\ Len(retval) = 2
    /\ Len(retval[1].walls) = 4
    /\ Len(retval[2].walls) = 10
    /\ retval[1].extraction_confidence = 20
    /\ retval[2].extraction_confidence = 30

ReturnedRecords ==
    IF pc # "returned" THEN <<>>
    ELSE IF entry = "extract_floor_plan" THEN <<retval>>
    ELSE retval

\* C10: every numeric field of every emitted element is non-negative and every
\* emitted wall has a length above 0: walls of extract_walls, the 4 edges of an
\* admitted Rect among them, walls of extract_walls_enhanced, merged walls
\* (length, thickness), rooms (area, perimeter) and windows (width).
C10_NumericFieldsNonNegative ==
    \A r \in 1..Len(ReturnedRecords) :
        LET rec == ReturnedRecords[r]
        IN  /\ \A w \in 1..Len(rec.walls) :
                  /\ rec.walls[w].length > 0
                  /\ "thickness" \in DOMAIN rec.walls[w] => rec.walls[w].thickness >= 0
            /\ \A m \in 1..Len(rec.rooms) :
                  rec.rooms[m].area >= 0 /\ rec.rooms[m].perimeter >= 0
            /\ \A n \in 1..Len(rec.windows) : rec.windows[n].width >= 0

(* -------------------------------------------------------------------------
   Wall records of the single-page pipeline
   ------------------------------------------------------------------------- *)

WallFields == {"start", "end", "length", "thickness", "is_orthogonal"}

HasAllWallFields(w) ==
    /\ WallFields \subseteq DOMAIN w
    /\ w.is_orthogonal \in BOOLEAN

(* C11: every wall record returned by extract_walls_enhanced carries all five
   Wall fields (start, end, length, thickness and the orthogonality flag as
   a boolean), whether it went through the merger unmerged or was produced
   by merging two candidates. *)
C11_WallRecordsComplete ==
    phase = "extract_walls_enhanced" =>
        \A n \in 1..Len(out) : HasAllWallFields(out[n])

(* -------------------------------------------------------------------------
   Bare numbers in the dimension scan
   ------------------------------------------------------------------------- *)

\* the span text is a number and nothing else: one or more digits
IsBareNumber(t) == Len(t) > 0 /\ \A n \in 1..Len(t) : IsDigit(t[n])

\* >= 100 is millimetres already, anything smaller is metres
BareNumberRule(v) == IF v >= 100 THEN Whole(v) ELSE Whole(v * 1000)

(* C12: a span whose text is a bare number with no unit yields one dimension,
   and its value follows the bare-number rule: a number >= 100 is kept as
   millimetres ("150" gives 150.0), a number < 100 is multiplied by 1000
   ("50" gives 50000.0). *)
C12_BareNumberRule ==
    (scanned /\ IsBareNumber(span_text)) =>
        /\ Len(dims) = 1
        /\ dims[1].numeric_value = Some(BareNumberRule(DigitsValue(span_text)))

(* -------------------------------------------------------------------------
   The single-page pipeline on an empty page
   ------------------------------------------------------------------------- *)

\* a readable page with no vector primitives and no text
IsBlankPage(page) ==
    /\ ~page.damaged
    /\ page.drawings = <<>>
    /\ page.spans = <<>>

(* C13: for a first page with no vector primitives and no text
   extract_floor_plan does not fail, and the record it returns has empty
   walls, rooms, dimensions, doors, windows and raw_text, no scale_factor and
   a confidence of exactly 0. *)
C13_BlankPageEmptyRecord ==
    (entry = "extract_floor_plan" /\ Len(doc) > 0 /\ IsBlankPage(doc[1])) =>
        /\ pc # "raised"
        /\ pc = "returned" =>
              /\ retval.walls = <<>>
              /\ retval.rooms = <<>>
              /\ retval.dimensions = <<>>
              /\ retval.doors = <<>>
              /\ retval.windows = <<>>
              /\ retval.raw_text = <<>>
              /\ retval.scale_factor = None
              /\ retval.extraction_confidence = 0
              /\ retval.confidence = 0

\* extract_floor_plan has returned the record of a blank first page
C13_Witness ==
    /\ pc = "returned"
    /\ entry = "extract_floor_plan"
    /\ Len(doc) > 0
    /\ IsBlankPage(doc[1])
    /\ handle = "closed"
    /\ retval.page_width = A4.width

(* -------------------------------------------------------------------------
   Monotonicity of the two scoring profiles
   ------------------------------------------------------------------------- *)

\* every count of c is at most the corresponding count of d
CountsLeq(c, d) == \A kind \in DOMAIN c : c[kind] <= d[kind]

(* C14: both scoring profiles are monotone in the element counts: when no
   count (walls, dimensions, raw text lines, rooms, doors, windows) gets
   smaller from one input to the next, neither the lightweight nor the
   enhanced confidence gets smaller; read backwards, dropping elements never
   raises confidence.  Every step raises one count to the next value at which
   a bucket can change, so chains of steps connect every ordered pair of
   inputs. *)
C14_ConfidenceMonotone ==
    [][CountsLeq(counts, counts') =>
          /\ confidence.light <= confidence'.light
          /\ confidence.enhanced <= confidence'.enhanced]_vars

\* counts that have grown past a first threshold of each profile, with the
\* scores those buckets give
C14_Witness ==
    /\ counts.walls = 6
    /\ counts.doors = 1
    /\ counts.dimensions = 0
    /\ counts.raw_text = 0
    /\ counts.rooms = 0
    /\ counts.windows = 0
    /\ confidence.light = 20
    /\ confidence.enhanced = 15

====
